---- MODULE Spec2Model ----
(***************************************************************************)
(* A model of the job ranking pipeline of rank_jobs_w_claude.py.           *)
(*                                                                         *)
(* Text.  A Python str is a sequence of atoms.  The atoms " ", ".", "/",   *)
(* ":", ",", "{", "}", "-", the double quote (written "q") and the digits  *)
(* are single characters; every other atom is a run of letters that is     *)
(* never cut by the needles the code searches for (" hiring ", "Jobs at ", *)
(* "match_score", "linkedin.com", ...), so substring search, split, strip  *)
(* and replace on atoms agree with the same operations on characters.      *)
(*                                                                         *)
(* Values.  A Python value is a record [t, s, n, kv]: t is its type        *)
(* ("str", "int", "none", "dict"), s the text of a str, n the number of    *)
(* an int, kv the key/value pairs of a dict.                               *)
(***************************************************************************)
EXTENDS Integers, Sequences, FiniteSets, TLC

VARIABLES
    cn_pc, cn_url, cn_title, cn_out,          \* one call of _extract_company_name
    ps_pc, search_results, ps_idx, ps_jobs, ps_log, \* one call of parse_google_search_json
    an_pc, an_job, an_reply, an_out,          \* one call of analyze_job_listing
    pc, caller, snapshot, jobs, i, score_analysis, calls, sleeps, trace,
    ranked_jobs, results_file,                \* one run of main or of rank_jobs
    ft_pc, max_results, start, raw_responses, snapshot_file,
    loaded_jobs                               \* one fetch by run_search, saved and replayed

cn_vars == <<cn_pc, cn_url, cn_title, cn_out>>
ps_vars == <<ps_pc, search_results, ps_idx, ps_jobs, ps_log>>
an_vars == <<an_pc, an_job, an_reply, an_out>>
main_vars == <<pc, caller, snapshot, jobs, i, score_analysis, calls, sleeps, trace,
              ranked_jobs, results_file>>
ft_vars == <<ft_pc, max_results, start, raw_responses, snapshot_file, loaded_jobs>>
vars == <<cn_vars, ps_vars, an_vars, main_vars, ft_vars>>

----------------------------------------------------------------------------
(* Bounds of the model.                                                    *)

MaxTitleParts == 4
MaxItems == 3
MaxJobs == 3
MaxReplyAtoms == 4
MaxPages == 3
MaxPageItems == 2

----------------------------------------------------------------------------
(* Python values.                                                          *)

PyStr(s) == [t |-> "str", s |-> s, n |-> 0, kv |-> <<>>]
PyInt(n) == [t |-> "int", s |-> <<>>, n |-> n, kv |-> <<>>]
PyNone == [t |-> "none", s |-> <<>>, n |-> 0, kv |-> <<>>]
PyDict(kv) == [t |-> "dict", s |-> <<>>, n |-> 0, kv |-> kv]

\* The outcome of a call: a returned value, or a raised exception with its text.
Returned(v) == [raised |-> FALSE, val |-> v, err |-> <<>>]
Raised(e) == [raised |-> TRUE, val |-> PyNone, err |-> e]

----------------------------------------------------------------------------
(* Python str operations, on sequences of atoms.                           *)

Slice(s, a, b) == IF a > b THEN <<>> ELSE SubSeq(s, a, b)

\* s[a:] with a 1-based
From(s, a) == Slice(s, a, Len(s))

OccursAt(s, needle, k) ==
    /\ k >= 1
    /\ k + Len(needle) - 1 <= Len(s)
    /\ \A j \in 1..Len(needle) : s[k + j - 1] = needle[j]

\* str.find: the first position >= a where needle occurs, 0 when there is none
Find(s, needle, a) ==
    LET hits == {k \in a..(Len(s) - Len(needle) + 1) : OccursAt(s, needle, k)}
    IN IF hits = {} THEN 0 ELSE CHOOSE k \in hits : \A h \in hits : k <= h

\* needle in s
Contains(s, needle) == Find(s, needle, 1) # 0

StartsWith(s, prefix) == OccursAt(s, prefix, 1)

\* str.split(sep): the pieces between the non-overlapping occurrences of sep
RECURSIVE Split(_, _)
Split(s, sep) ==
    LET k == Find(s, sep, 1)
    IN IF k = 0 THEN <<s>>
       ELSE <<Slice(s, 1, k - 1)>> \o Split(From(s, k + Len(sep)), sep)

\* str.replace(old, new): every non-overlapping occurrence, left to right
RECURSIVE Replace(_, _, _)
Replace(s, old, new) ==
    LET k == Find(s, old, 1)
    IN IF k = 0 THEN s
       ELSE Slice(s, 1, k - 1) \o new \o Replace(From(s, k + Len(old)), old, new)

\* str.strip(chars): leading and trailing atoms of the set chars removed
RECURSIVE LStrip(_, _)
LStrip(s, chars) ==
    IF s # <<>> /\ Head(s) \in chars THEN LStrip(Tail(s), chars) ELSE s

RECURSIVE RStrip(_, _)
RStrip(s, chars) ==
    IF s # <<>> /\ s[Len(s)] \in chars THEN RStrip(Slice(s, 1, Len(s) - 1), chars) ELSE s

Strip(s, chars) == RStrip(LStrip(s, chars), chars)

Whitespace == {" "}

\* str.lower and str.upper on one atom
LowerAtom(a) ==
    CASE a = "LinkedIn" -> "linkedin"
      [] a = "Widgetco" -> "widgetco"
      [] a = "Localhost" -> "localhost"
      [] a = "Careers" -> "careers"
      [] a = "Com" -> "com"
      [] OTHER -> a

TitleAtom(a) ==
    CASE a = "linkedin" -> "Linkedin"
      [] a = "widgetco" -> "Widgetco"
      [] a = "localhost" -> "Localhost"
      [] a = "careers" -> "Careers"
      [] a = "com" -> "Com"
      [] a = "greenhouse" -> "Greenhouse"
      [] a = "glassdoor" -> "Glassdoor"
      [] a = "indeed" -> "Indeed"
      [] a = "io" -> "Io"
      [] a = "boards" -> "Boards"
      [] OTHER -> a

Lower(s) == [k \in 1..Len(s) |-> LowerAtom(s[k])]

\* str.capitalize: first character upper case, the rest lower case
Capitalize(s) ==
    IF s = <<>> THEN <<>> ELSE <<TitleAtom(LowerAtom(s[1]))>> \o Lower(Tail(s))

----------------------------------------------------------------------------
(* urllib.parse.urlparse(url).netloc for a str url.                        *)

\* the characters a URL scheme may hold: letters, digits, "+", "-", "."
SchemeChar(a) == a \notin {"/", ":", " ", ",", "q", "{", "}"}

\* urlsplit: a leading "<scheme>:" is cut off when the url starts with a letter
\* and every character before the first ":" is a scheme character; the netloc
\* is what follows a leading "//", up to the next "/".
Netloc(url) ==
    LET c == Find(url, <<":">>, 1)
        rest == IF /\ c > 1
                   /\ url[1] \notin {".", "-"}
                   /\ \A k \in 1..(c - 1) : SchemeChar(url[k])
                THEN From(url, c + 1) ELSE url
        e == Find(rest, <<"/">>, 3)
    IN IF StartsWith(rest, <<"/", "/">>)
       THEN (IF e = 0 THEN From(rest, 3) ELSE Slice(rest, 3, e - 1))
       ELSE <<>>

----------------------------------------------------------------------------
(* JobRanker._extract_company_name                                         *)

Hiring == <<" ", "hiring", " ">>
JobsAt == <<"Jobs", " ", "at", " ">>
UnknownCompany == <<"Unknown", " ", "Company">>
Dot == <<".">>

\* `" hiring " in title`: a TypeError for None and for an int; a key test for a dict
HiringInTitle(title) ==
    CASE title.t = "str" -> Returned(Contains(title.s, Hiring))
      [] title.t = "dict" -> Returned(\E k \in 1..Len(title.kv) : title.kv[k][1] = Hiring)
      [] OTHER -> Raised(<<"TypeError">>)

\* lines 297-302: the company taken from the title
CompanyFromTitle(title) ==
    IF title.t # "str" THEN Raised(<<"AttributeError">>)
    ELSE LET company == Strip(Split(title.s, Hiring)[1], Whitespace)
         IN Returned(PyStr(IF StartsWith(company, JobsAt)
                           THEN Replace(company, JobsAt, <<>>)
                           ELSE company))

\* lines 305-324: the company taken from the host of the URL.  For a url that
\* is not a str, urlparse yields bytes (None) or raises (int): either way the
\* first `in` test or the parse raises.
CompanyFromUrl(url) ==
    IF url.t # "str" THEN Raised(<<"TypeError">>)
    ELSE LET domain == Lower(Netloc(url.s))
             domain_parts == Split(domain, Dot)
         IN Returned(PyStr(
              CASE Contains(domain, <<"linkedin", ".", "com">>) -> <<"LinkedIn", " ", "Job">>
                [] Contains(domain, <<"glassdoor", ".", "com">>) -> <<"Glassdoor", " ", "Job">>
                [] Contains(domain, <<"indeed", ".", "com">>) -> <<"Indeed", " ", "Job">>
                [] Contains(domain, <<"greenhouse", ".", "io">>) -> <<"Greenhouse", " ", "Job">>
                [] OTHER -> IF Len(domain_parts) >= 2
                            THEN Capitalize(domain_parts[Len(domain_parts) - 1])
                            ELSE Capitalize(domain)))

\* the body of the try block, lines 295-324
ExtractCompanyNameBody(url, title) ==
    LET h == HiringInTitle(title)
    IN IF h.raised THEN h
       ELSE IF h.val THEN CompanyFromTitle(title)
       ELSE CompanyFromUrl(url)

\* lines 294, 326-328: any exception becomes "Unknown Company"
ExtractCompanyName(url, title) ==
    LET r == ExtractCompanyNameBody(url, title)
    IN IF r.raised THEN Returned(PyStr(UnknownCompany)) ELSE r

----------------------------------------------------------------------------
(* Inputs of the _extract_company_name harness.                            *)

TitleParts == {Hiring, JobsAt, <<"Acme">>, <<" ">>, <<"Dev">>}

RECURSIVE Concats(_, _)
Concats(parts, n) ==
    IF n = 0 THEN {<<>>}
    ELSE LET shorter == Concats(parts, n - 1)
         IN shorter \cup {p \o t : p \in parts, t \in shorter}

TitleInputs == {PyStr(t) : t \in Concats(TitleParts, MaxTitleParts)} \cup {PyNone, PyInt(5)}

Hosts == { <<>>,
           <<"localhost">>,
           <<"widgetco", ".", "com">>,
           <<"careers", ".", "widgetco", ".", "com">>,
           <<"Careers", ".", "Widgetco", ".", "Com">>,
           <<"www", ".", "linkedin", ".", "com">>,
           <<"LinkedIn", ".", "com">>,
           <<"linkedin", ".", "com", ".", "widgetco", ".", "com">>,
           <<"www", ".", "glassdoor", ".", "com">>,
           <<"indeed", ".", "com">>,
           <<"boards", ".", "greenhouse", ".", "io">>,
           <<"greenhouse", ".", "widgetco", ".", "io">> }

UrlInputs ==
    {PyStr(s \o h \o p) : s \in {<<>>, <<"https", ":", "/", "/">>},
                          h \in Hosts,
                          p \in {<<>>, <<"/", "job">>}}
    \cup {PyNone}

----------------------------------------------------------------------------
(* JobListing and JobRanker.parse_google_search_json                       *)

\* the dataclass, lines 32-39, with its defaults
JobListing(title, company, url, description) ==
    [title |-> title, company |-> company, url |-> url, description |-> description,
     match_score |-> PyInt(0), analysis |-> PyStr(<<>>)]

\* A snapshot: the decoded JSON object, with or without an "items" list.
Snapshot(has_items, its) == [has_items |-> has_items, items |-> its]
NoSnapshot == Snapshot(FALSE, <<>>)

\* dict.get(key, default): the value of the key (null included) when present
Get(d, key, default) ==
    LET at == {k \in 1..Len(d.kv) : d.kv[k][1] = key}
    IN IF at = {} THEN default
       ELSE d.kv[CHOOSE k \in at : \A j \in at : j <= k][2]

UnknownPosition == <<"Unknown", " ", "Position">>

\* title[:50] in the progress message, line 282: only text can be sliced
TitleSliceRaises(title) == title.t # "str"

\* One iteration of the loop, lines 261-287: whether a record was appended,
\* the record, and whether the iteration ended in the except branch.
ParseItem(item) ==
    IF item.t # "dict"
    THEN [appended |-> FALSE, raised |-> TRUE,
          job |-> JobListing(PyNone, PyNone, PyNone, PyNone)]
    ELSE LET title == Get(item, <<"title">>, PyStr(UnknownPosition))
             url == Get(item, <<"link">>, PyStr(<<>>))
             snippet == Get(item, <<"snippet">>, PyStr(<<>>))
             company == ExtractCompanyName(url, title)
         IN [appended |-> TRUE,
             raised |-> TitleSliceRaises(title),
             job |-> JobListing(title, company.val, url, snippet)]

\* line 253: no "items", or an empty list
NoItems(sr) == ~sr.has_items \/ sr.items = <<>>

\* the whole function, lines 247-289
RECURSIVE ParseFrom(_, _)
ParseFrom(its, k) ==
    IF k > Len(its) THEN <<>>
    ELSE LET r == ParseItem(its[k])
         IN (IF r.appended THEN <<r.job>> ELSE <<>>) \o ParseFrom(its, k + 1)

ParseGoogleSearchJson(sr) == IF NoItems(sr) THEN <<>> ELSE ParseFrom(sr.items, 1)

----------------------------------------------------------------------------
(* Inputs of the parser harness: raw search result items.                  *)

WidgetcoUrl == <<"https", ":", "/", "/", "careers", ".", "widgetco", ".", "com", "/", "job">>

ItemInputs ==
    { PyDict(<< <<<<"title">>, PyStr(<<"Acme">> \o Hiring \o <<"Dev">>)>>,
                <<<<"link">>, PyStr(WidgetcoUrl)>>,
                <<<<"snippet">>, PyStr(<<"Dev">>)>> >>),
      PyDict(<<>>),
      PyDict(<< <<<<"title">>, PyNone>>, <<<<"link">>, PyStr(WidgetcoUrl)>> >>),
      PyDict(<< <<<<"title">>, PyInt(5)>> >>),
      PyDict(<< <<<<"link">>, PyStr(WidgetcoUrl)>>, <<<<"snippet">>, PyNone>> >>),
      PyDict(<< <<<<"title">>, PyStr(<<"Dev">>)>>, <<<<"link">>, PyNone>> >>),
      PyStr(<<"Dev">>),
      PyNone }

RECURSIVE SeqsUpTo(_, _)
SeqsUpTo(S, n) ==
    IF n = 0 THEN {<<>>}
    ELSE LET shorter == SeqsUpTo(S, n - 1)
         IN shorter \cup {<<x>> \o t : x \in S, t \in {u \in shorter : Len(u) = n - 1}}

SnapshotInputs ==
    {Snapshot(TRUE, its) : its \in SeqsUpTo(ItemInputs, MaxItems)} \cup {NoSnapshot}

----------------------------------------------------------------------------
(* json.loads on a reply text.  The texts hold no backslash, no ".", no    *)
(* "[" and of the JSON literals only null, so the grammar is: objects,     *)
(* strings, integers and null, with blanks between the tokens.             *)

Digits == {"0", "1", "5", "7"}

DigitValue(d) == CASE d = "0" -> 0 [] d = "1" -> 1 [] d = "5" -> 5 [] d = "7" -> 7

\* the atom at position p, "" past the end
At(s, p) == IF p >= 1 /\ p <= Len(s) THEN s[p] ELSE ""

RECURSIVE SkipWs(_, _)
SkipWs(s, p) == IF At(s, p) = " " THEN SkipWs(s, p + 1) ELSE p

\* the end of the run of digits that starts at p (p - 1 when there is none)
RECURSIVE DigitsEnd(_, _)
DigitsEnd(s, p) == IF At(s, p) \in Digits THEN DigitsEnd(s, p + 1) ELSE p - 1

\* the number written by the digits s[a..b]
RECURSIVE Decimal(_, _, _)
Decimal(s, a, b) == IF a > b THEN 0 ELSE 10 * Decimal(s, a, b - 1) + DigitValue(s[b])

JsonFail == [ok |-> FALSE, val |-> PyNone, next |-> 0]
JsonOk(v, next) == [ok |-> TRUE, val |-> v, next |-> next]

\* a string: from a quote to the next quote
JsonString(s, p) ==
    LET e == Find(s, <<"q">>, p + 1)
    IN IF At(s, p) = "q" /\ e # 0 THEN JsonOk(PyStr(Slice(s, p + 1, e - 1)), e + 1)
       ELSE JsonFail

\* a number: "-"? ("0" | digit+ without a leading zero)
JsonNumber(s, p) ==
    LET d == IF At(s, p) = "-" THEN p + 1 ELSE p
        e == IF At(s, d) = "0" THEN d ELSE DigitsEnd(s, d)
        n == Decimal(s, d, e)
    IN IF e < d THEN JsonFail
       ELSE JsonOk(PyInt(IF d > p THEN 0 - n ELSE n), e + 1)

\* the only element of a one-element set: Only({e(x) : x \in {v}}) is e(v),
\* with v computed once
Only(S) == CHOOSE x \in S : TRUE

RECURSIVE JsonValue(_, _), JsonMembers(_, _, _)
\* what follows the value v of the member named key: "}" ends the object, ","
\* brings the next member
JsonAfterValue(s, key, v, kv) ==
    IF ~v.ok THEN JsonFail
    ELSE IF At(s, SkipWs(s, v.next)) = "}"
         THEN JsonOk(PyDict(Append(kv, <<key.val.s, v.val>>)), SkipWs(s, v.next) + 1)
    ELSE IF At(s, SkipWs(s, v.next)) = ","
         THEN JsonMembers(s, SkipWs(s, SkipWs(s, v.next) + 1), Append(kv, <<key.val.s, v.val>>))
    ELSE JsonFail

\* what follows the key of a member: ":" and a value
JsonAfterKey(s, key, kv) ==
    IF ~key.ok \/ At(s, SkipWs(s, key.next)) # ":" THEN JsonFail
    ELSE Only({JsonAfterValue(s, key, v, kv) :
                  v \in {JsonValue(s, SkipWs(s, SkipWs(s, key.next) + 1))}})

\* the members of an object from position p on, after kv; p is at a key
JsonMembers(s, p, kv) == Only({JsonAfterKey(s, key, kv) : key \in {JsonString(s, p)}})

JsonValue(s, p) ==
    CASE At(s, p) = "{" ->
            (IF At(s, SkipWs(s, p + 1)) = "}" THEN JsonOk(PyDict(<<>>), SkipWs(s, p + 1) + 1)
             ELSE JsonMembers(s, SkipWs(s, p + 1), <<>>))
      [] At(s, p) = "q" -> JsonString(s, p)
      [] At(s, p) = "null" -> JsonOk(PyNone, p + 1)
      [] At(s, p) \in Digits \cup {"-"} -> JsonNumber(s, p)
      [] OTHER -> JsonFail

\* json.loads(text): the value, or JSONDecodeError (no value, or text after it)
JsonEnd(s, r) ==
    IF r.ok /\ SkipWs(s, r.next) = Len(s) + 1 THEN Returned(r.val)
    ELSE Raised(<<"JSONDecodeError">>)

JsonLoads(s) == Only({JsonEnd(s, r) : r \in {JsonValue(s, SkipWs(s, 1))}})

\* d[key] on a decoded value: KeyError on a dict without the key (the message
\* is the quoted key), TypeError on anything that is not a dict
HasKey(d, key) == \E k \in 1..Len(d.kv) : d.kv[k][1] = key

Subscript(d, key) ==
    IF d.t # "dict" THEN Raised(<<"TypeError">>)
    ELSE IF ~HasKey(d, key) THEN Raised(<<"'">> \o key \o <<"'">>)
    ELSE Returned(Get(d, key, PyNone))

\* int(text): blanks around, an optional "-", one or more digits
PyIntParse(text) ==
    LET t == Strip(text, Whitespace)
        d == IF At(t, 1) = "-" THEN 2 ELSE 1
    IN IF d <= Len(t) /\ \A k \in d..Len(t) : t[k] \in Digits
       THEN Returned(PyInt(IF d = 2 THEN 0 - Decimal(t, d, Len(t)) ELSE Decimal(t, d, Len(t))))
       ELSE Raised(<<"ValueError">>)

----------------------------------------------------------------------------
(* JobRanker.analyze_job_listing                                           *)

MatchScore == <<"match_score">>
AnalysisKey == <<"analysis">>
Colon == <<":">>
Comma == <<",">>
Quote == {"q"}

DefaultScore == 5

\* What client.messages.create does: it raises ("error", with the text of the
\* exception), returns a message without content blocks ("empty"), or returns a
\* message whose first block holds a text ("text").
Reply(kind, text) == [kind |-> kind, text |-> text]

\* What analyze_job_listing does: it raises, or returns (score, analysis) from
\* the return statement of line 125 ("json"), 142 ("scrape") or 147 ("failed").
AnRaised(e) == [raised |-> TRUE, tier |-> "raised", score |-> PyNone, analysis |-> PyNone, err |-> e]
AnReturned(tier, score, analysis) ==
    [raised |-> FALSE, tier |-> tier, score |-> score, analysis |-> analysis, err |-> <<>>]

\* line 147
AnalysisFailed(e) == PyStr(<<"Analysis", " ", "failed", ":", " ">> \o e)

\* line 94: job.description[:4000] in the prompt, evaluated before the try
DescriptionSliceRaises(job) == job.description.t # "str"

\* line 137, with the IndexError of a missing piece and the ValueError of int
ScrapeInt(content) ==
    LET pieces == Split(Split(content, MatchScore)[2], Colon)
    IN IF Len(pieces) < 2 THEN Raised(<<"IndexError">>)
       ELSE PyIntParse(Strip(Strip(Split(pieces[2], Comma)[1], Whitespace), Quote))

\* lines 133-140, for the outcome r of line 137
ScoreOrDefault(r) == IF r.raised THEN PyInt(DefaultScore) ELSE r.val

\* a scrape that forgets the neutral default and leaves the score unset
ScrapeScoreNoDefault(content) ==
    IF Contains(content, MatchScore)
    THEN Only({IF r.raised THEN PyInt(0) ELSE r.val : r \in {ScrapeInt(content)}})
    ELSE PyInt(0)

\* lines 133-140
ScrapeScore(content) ==
    IF Contains(content, MatchScore)
    THEN Only({ScoreOrDefault(r) : r \in {ScrapeInt(content)}})
    ELSE PyInt(DefaultScore)

\* lines 125-147, for the outcome of json.loads on the reply text
AnalyzeDecoded(text, result) ==
    IF result.raised THEN AnReturned("scrape", ScrapeScore(text), PyStr(text))
    ELSE IF Subscript(result.val, MatchScore).raised
         THEN AnReturned("failed", PyInt(0), AnalysisFailed(Subscript(result.val, MatchScore).err))
    ELSE IF Subscript(result.val, AnalysisKey).raised
         THEN AnReturned("failed", PyInt(0), AnalysisFailed(Subscript(result.val, AnalysisKey).err))
    ELSE AnReturned("json", Subscript(result.val, MatchScore).val,
                    Subscript(result.val, AnalysisKey).val)

\* lines 123-147, for a reply text
AnalyzeText(text) == Only({AnalyzeDecoded(text, result) : result \in {JsonLoads(text)}})

\* lines 80-147
AnalyzeJobListing(job, reply) ==
    IF DescriptionSliceRaises(job) THEN AnRaised(<<"TypeError">>)
    ELSE CASE reply.kind = "error" -> AnReturned("failed", PyInt(0), AnalysisFailed(reply.text))
           [] reply.kind = "empty" -> AnReturned("failed", PyInt(0), AnalysisFailed(<<"IndexError">>))
           [] OTHER -> AnalyzeText(reply.text)

----------------------------------------------------------------------------
(* Inputs of the analyzer harness.                                         *)


ReplyAtoms == {"match_score", ":", ",", " ", "q", "7", "0", "fit", "{", "}"}

\* a reply object {"match_score": <score>, "analysis": <analysis>}
ReplyObject(score, analysis) ==
    <<"{", "q", "match_score", "q", ":", " ">> \o score
        \o <<",", " ", "q", "analysis", "q", ":", " ">> \o analysis \o <<"}">>

ScoreTexts == {<<"7">>, <<"0">>, <<"1", "5">>, <<"-", "1">>, <<"0", "7">>,
               <<"q", "7", "q">>, <<"null">>, <<"{", "}">>}
AnalysisTexts == {<<"q", "fit", "q">>, <<"q", "q">>, <<"null">>}

LongReplyTexts ==
    {ReplyObject(sc, a) : sc \in ScoreTexts, a \in AnalysisTexts}
    \cup {<<"fit", " ">> \o ReplyObject(sc, <<"q", "fit", "q">>) : sc \in ScoreTexts}
    \cup { <<"{", "q", "match_score", "q", ":", "7", "}">>,
           <<"{", "q", "analysis", "q", ":", "q", "fit", "q", "}">>,
           <<"{", "q", "match_score", "q", ":", "1", ",", "q", "match_score", "q", ":", "7",
             ",", "q", "analysis", "q", ":", "null", "}">>,
           <<"fit", " ", "match_score", " ", "fit", ":", " ">> \o ReplyObject(<<"7">>, <<"null">>),
           <<"q", "match_score", "q", ":", " ", "q", " ", "7", "q", ",">>,
           <<"match_score", ":", "7", " ", "5", ",">>,
           <<"match_score", ":", "7", ":", "5", ",">>,
           <<"match_score", ":", "-", "1", "5", ",">> }

ErrorTexts == {<<>>, <<"boom">>}

ReplyInputs ==
    {Reply("text", t) : t \in SeqsUpTo(ReplyAtoms, MaxReplyAtoms) \cup LongReplyTexts}
    \cup {Reply("error", e) : e \in ErrorTexts}
    \cup {Reply("empty", <<>>)}

\* job records as the parser makes them: with a text, an empty and a null snippet
JobInputs ==
    {ParseItem(it).job : it \in {x \in ItemInputs : ParseItem(x).appended}}

----------------------------------------------------------------------------
(* JobRanker.rank_jobs and JobRanker.save_results                          *)

\* A JobListing object in a list: ident is the identity of the object (its
\* position in the list handed to rank_jobs), which two records with equal
\* fields still differ in.
JobObject(k, job) ==
    [ident |-> k, title |-> job.title, company |-> job.company, url |-> job.url,
     description |-> job.description, match_score |-> job.match_score,
     analysis |-> job.analysis]

JobObjects(js) == [k \in 1..Len(js) |-> JobObject(k, js[k])]

\* a delay after every record, the last one included
DelayAfterEvery(k, n) == k <= n

\* line 168: a delay follows record i of n unless it is the last one
NeedsDelay(k, n) == k < n

\* The `<` of two scores: defined between two ints and between two strs (by
\* code point, here of digits); anything else is a TypeError.
RECURSIVE StrLess(_, _)
StrLess(a, b) ==
    IF b = <<>> THEN FALSE
    ELSE IF a = <<>> THEN TRUE
    ELSE IF Head(a) = Head(b) THEN StrLess(Tail(a), Tail(b))
    ELSE DigitValue(Head(a)) < DigitValue(Head(b))

Comparable(a, b) == a.t = b.t /\ a.t \in {"int", "str"}

ScoreLess(a, b) == IF a.t = "int" THEN a.n < b.n ELSE StrLess(a.s, b.s)

\* sorted raises when a comparison it makes raises: with two or more records, a
\* sort has to compare every record with another one, and records of different
\* comparison classes with each other
SortRaises(js) ==
    /\ Len(js) >= 2
    /\ \E a, b \in 1..Len(js) : a # b /\ ~Comparable(js[a].match_score, js[b].match_score)

Reverse(s) == [k \in 1..Len(s) |-> s[Len(s) + 1 - k]]

\* x put into the ascending list s behind every record that is not greater
RECURSIVE InsertAsc(_, _)
InsertAsc(s, x) ==
    IF s = <<>> THEN <<x>>
    ELSE IF ScoreLess(x.match_score, Head(s).match_score) THEN <<x>> \o s
    ELSE <<Head(s)>> \o InsertAsc(Tail(s), x)

\* a stable ascending sort by match_score
RECURSIVE SortAsc(_)
SortAsc(s) ==
    IF s = <<>> THEN <<>>
    ELSE Only({InsertAsc(sorted, s[Len(s)]) : sorted \in {SortAsc(Slice(s, 1, Len(s) - 1))}})

\* an ascending sort, reversed: descending, with the records of equal score
\* in reverse input order
SortedThenReversed(js) == Only({Reverse(sorted) : sorted \in {SortAsc(js)}})

\* line 173: sorted(jobs, key=match_score, reverse=True), which keeps the input
\* order of records of equal score: the list is reversed, sorted ascending
\* (stable) and reversed again
SortedByScoreDesc(js) ==
    Only({Reverse(sorted) : sorted \in {Only({SortAsc(reversed) : reversed \in {Reverse(js)}})}})

\* the entries with ranks counted from 0
ResultEntriesZeroBased(ranked) ==
    [k \in 1..Len(ranked) |->
        [rank |-> k - 1, match_score |-> ranked[k].match_score, company |-> ranked[k].company,
         title |-> ranked[k].title, url |-> ranked[k].url, analysis |-> ranked[k].analysis]]

\* lines 200-208: the entries of the results file
ResultEntries(ranked) ==
    [k \in 1..Len(ranked) |->
        [rank |-> k, match_score |-> ranked[k].match_score, company |-> ranked[k].company,
         title |-> ranked[k].title, url |-> ranked[k].url, analysis |-> ranked[k].analysis]]

\* job_rankings.json: absent, or holding a list of entries
File(exists, entries) == [exists |-> exists, entries |-> entries]
NoFile == File(FALSE, <<>>)
StaleEntry ==
    [rank |-> 1, match_score |-> PyInt(1), company |-> PyStr(<<"Acme">>),
     title |-> PyStr(<<"Dev">>), url |-> PyStr(<<>>), analysis |-> PyStr(<<"fit">>)]

----------------------------------------------------------------------------
(* Inputs of a run.                                                        *)

RunItemInputs ==
    { PyDict(<< <<<<"title">>, PyStr(<<"Acme">> \o Hiring \o <<"Dev">>)>>,
                <<<<"link">>, PyStr(WidgetcoUrl)>>,
                <<<<"snippet">>, PyStr(<<"Dev">>)>> >>),
      PyDict(<< <<<<"link">>, PyStr(WidgetcoUrl)>>, <<<<"snippet">>, PyNone>> >>),
      PyStr(<<"Dev">>) }

RunSnapshotInputs == {Snapshot(TRUE, its) : its \in SeqsUpTo(RunItemInputs, MaxJobs)}

RunReplyInputs ==
    { Reply("error", <<"boom">>),
      Reply("text", ReplyObject(<<"7">>, <<"q", "fit", "q">>)),
      Reply("text", ReplyObject(<<"0">>, <<"q", "fit", "q">>)),
      Reply("text", ReplyObject(<<"1", "5">>, <<"q", "q">>)),
      Reply("text", ReplyObject(<<"q", "7", "q">>, <<"q", "fit", "q">>)),
      Reply("text", <<>>),
      Reply("text", <<"match_score", ":", " ", "7", ",">>) }

----------------------------------------------------------------------------
(* The four harnesses share the variables; each leaves the others idle.    *)

NoOutcome == Returned(PyNone)

CnIdle == cn_pc = "idle" /\ cn_url = PyNone /\ cn_title = PyNone /\ cn_out = NoOutcome
PsIdle == ps_pc = "idle" /\ search_results = NoSnapshot /\ ps_idx = 0 /\ ps_jobs = <<>> /\ ps_log = <<>>
NoJob == JobListing(PyNone, PyNone, PyNone, PyNone)
NoReply == Reply("error", <<>>)
NoResult == AnReturned("none", PyNone, PyNone)
AnIdle == an_pc = "idle" /\ an_job = NoJob /\ an_reply = NoReply /\ an_out = NoResult
MainIdle ==
    /\ pc = "idle" /\ caller = "none" /\ snapshot = NoSnapshot /\ jobs = <<>> /\ i = 0
    /\ score_analysis = NoResult /\ calls = 0 /\ sleeps = 0
    /\ trace = <<>> /\ ranked_jobs = <<>> /\ results_file = NoFile

----------------------------------------------------------------------------
(* query_google_api.py: run_search, the dump of what it returns, and the   *)
(* replay of that file by load_jobs_from_google_search_file.               *)

PerPage == 10
StartLimit == 100

\* the answer to one requests.get: a status code and, for 200, the decoded
\* body r.json(), a mapping that may have an "items" list
Response(status, page) == [status |-> status, page |-> page]

\* line 35: not j.get("items")
GetItemsFalsy(j) == ~j.has_items \/ j.items = <<>>

\* line 19: the loop condition of run_search
MorePages(st, responses, limit) == st <= StartLimit /\ Len(responses) < limit

\* What a JSON file decodes to: a list of search responses, as json.dump of
\* run_search's return value writes it (lines 40-42), or one search response.
\* The values come from r.json() and hold nothing json.dump would change.
ListContent(pages) == [is_list |-> TRUE, pages |-> pages]
DictContent(sr) == [is_list |-> FALSE, pages |-> <<sr>>]
SnapshotFile(exists, content) == [exists |-> exists, content |-> content]
NoSnapshotFile == SnapshotFile(FALSE, ListContent(<<>>))

\* load_jobs_from_google_search_file, lines 365-373, on a file that exists and
\* holds JSON: json.load, then parse_google_search_json on whatever it gives.
\* On a list, 'items' not in search_results (line 253) asks whether an element
\* equals the text 'items'; the elements are mappings, so none does, and the
\* function returns its empty list at line 255.
LoadJobsFromGoogleSearchFile(content) ==
    IF content.is_list THEN <<>>
    ELSE ParseGoogleSearchJson(content.pages[1])

FetchItemInputs ==
    { PyDict(<< <<<<"title">>, PyStr(<<"Acme">> \o Hiring \o <<"Dev">>)>>,
                <<<<"link">>, PyStr(WidgetcoUrl)>>,
                <<<<"snippet">>, PyStr(<<"Dev">>)>> >>),
      PyDict(<< <<<<"link">>, PyStr(WidgetcoUrl)>> >>) }

FetchResponses ==
    {Response(200, Snapshot(TRUE, its)) : its \in SeqsUpTo(FetchItemInputs, MaxPageItems)}
        \cup {Response(200, NoSnapshot), Response(429, NoSnapshot)}

FtIdle ==
    /\ ft_pc = "idle" /\ max_results = 0 /\ start = 0 /\ raw_responses = <<>>
    /\ snapshot_file = NoSnapshotFile /\ loaded_jobs = <<>>

----------------------------------------------------------------------------
(* SpecCompany: one call of _extract_company_name on every input.          *)

CnInit ==
    /\ cn_pc = "call"
    /\ cn_url \in UrlInputs
    /\ cn_title \in TitleInputs
    /\ cn_out = NoOutcome
    /\ PsIdle /\ AnIdle /\ MainIdle /\ FtIdle

CnExtract ==
    /\ cn_pc = "call"
    /\ cn_out' = ExtractCompanyName(cn_url, cn_title)
    /\ cn_pc' = "done"
    /\ UNCHANGED <<cn_url, cn_title, ps_vars, an_vars, main_vars, ft_vars>>

CnNext == CnExtract

SpecCompany == CnInit /\ [][CnNext]_vars

----------------------------------------------------------------------------
(* Claims about _extract_company_name, under SpecCompany.                  *)

\* C8: for every (url, title), an empty url, a title that begins with
\* " hiring " and a non-text title included, _extract_company_name raises no
\* exception and returns a non-empty string.
C8_NonEmptyName ==
    cn_pc = "done" =>
        /\ ~cn_out.raised
        /\ cn_out.val.t = "str"
        /\ cn_out.val.s # <<>>

\* The rules of C9, written from the claim: the text before the first
\* " hiring " (trimmed) without a leading "Jobs at "; else the label of a known
\* job board; else the second-to-last label of the host, capitalised (the
\* whole host when it has one label).
C9_Before(title) == Strip(Slice(title, 1, Find(title, Hiring, 1) - 1), Whitespace)

C9_LastDot(host) ==
    LET dots == {k \in 1..Len(host) : host[k] = "."}
    IN IF dots = {} THEN 0 ELSE CHOOSE k \in dots : \A d \in dots : d <= k

C9_SecondToLast(host) ==
    LET last == C9_LastDot(host)
        head == Slice(host, 1, last - 1)
    IN IF last = 0 THEN host ELSE From(head, C9_LastDot(head) + 1)

C9_Expected(url, title) ==
    LET before == C9_Before(title)
        host == Lower(Netloc(url))
    IN CASE Contains(title, Hiring) ->
              IF StartsWith(before, JobsAt) THEN From(before, Len(JobsAt) + 1) ELSE before
         [] ~Contains(title, Hiring) /\ Contains(host, <<"linkedin", ".", "com">>) ->
              <<"LinkedIn", " ", "Job">>
         [] OTHER ->
              IF Contains(host, <<"glassdoor", ".", "com">>) THEN <<"Glassdoor", " ", "Job">>
              ELSE IF Contains(host, <<"indeed", ".", "com">>) THEN <<"Indeed", " ", "Job">>
              ELSE IF Contains(host, <<"greenhouse", ".", "io">>) THEN <<"Greenhouse", " ", "Job">>
              ELSE Capitalize(C9_SecondToLast(host))

\* C9: for every text (url, title), _extract_company_name returns what the
\* rules give in strict priority order: title rule, then job board label, then
\* host label.
C9_PriorityRules ==
    (cn_pc = "done" /\ cn_url.t = "str" /\ cn_title.t = "str") =>
        /\ ~cn_out.raised
        /\ cn_out.val = PyStr(C9_Expected(cn_url.s, cn_title.s))

\* The same rules with the title rule as the code has it (every "Jobs at "
\* removed once the text starts with one): what the code does everywhere else.
C9_AsCoded ==
    (cn_pc = "done" /\ cn_url.t = "str" /\ cn_title.t = "str") =>
        \/ cn_out.val = PyStr(C9_Expected(cn_url.s, cn_title.s))
        \/ /\ Contains(cn_title.s, Hiring)
           /\ StartsWith(C9_Before(cn_title.s), JobsAt)
           /\ cn_out.val = PyStr(Replace(C9_Before(cn_title.s), JobsAt, <<>>))

----------------------------------------------------------------------------
(* SpecParse: one call of parse_google_search_json, one item per step.     *)

PsInit ==
    /\ ps_pc = "call"
    /\ search_results \in SnapshotInputs
    /\ ps_idx = 0
    /\ ps_jobs = <<>>
    /\ ps_log = <<>>
    /\ CnIdle /\ AnIdle /\ MainIdle /\ FtIdle

\* lines 250-258
PsEnter ==
    /\ ps_pc = "call"
    /\ ps_pc' = IF NoItems(search_results) THEN "returned" ELSE "loop"
    /\ UNCHANGED <<search_results, ps_idx, ps_jobs, ps_log, cn_vars, an_vars, main_vars, ft_vars>>

\* lines 261-287: one iteration
PsItem ==
    /\ ps_pc = "loop"
    /\ ps_idx < Len(search_results.items)
    /\ LET r == ParseItem(search_results.items[ps_idx + 1])
       IN /\ ps_jobs' = IF r.appended THEN Append(ps_jobs, r.job) ELSE ps_jobs
          /\ ps_log' = Append(ps_log, IF r.raised THEN "error" ELSE "parsed")
    /\ ps_idx' = ps_idx + 1
    /\ UNCHANGED <<ps_pc, search_results, cn_vars, an_vars, main_vars, ft_vars>>

\* line 289
PsReturn ==
    /\ ps_pc = "loop"
    /\ ps_idx = Len(search_results.items)
    /\ ps_pc' = "returned"
    /\ UNCHANGED <<search_results, ps_idx, ps_jobs, ps_log, cn_vars, an_vars, main_vars, ft_vars>>

PsNext == PsEnter \/ PsItem \/ PsReturn

SpecParse == PsInit /\ [][PsNext]_vars

----------------------------------------------------------------------------
(* Claims about parse_google_search_json, under SpecParse.                 *)

\* the records of the items of its[1..k] whose processing raised no exception
RECURSIVE C7_Clean(_, _)
C7_Clean(its, k) ==
    IF k = 0 THEN <<>>
    ELSE C7_Clean(its, k - 1) \o
         (IF ParseItem(its[k]).raised THEN <<>> ELSE <<ParseItem(its[k]).job>>)

\* C7: for a snapshot with a non-empty items list, the returned list holds, in
\* input order, exactly one record for each item whose processing raised no
\* exception and none for an item whose processing raised one; every item is
\* processed, whatever happened to the items before it.
C7_SkipsFailedItems ==
    (ps_pc = "returned" /\ ~NoItems(search_results)) =>
        /\ Len(ps_log) = Len(search_results.items)
        /\ ps_jobs = C7_Clean(search_results.items, Len(search_results.items))

\* What the code does: every item is processed, and the list holds the record
\* of every item that reached line 279, the exception of line 282 included.
C7_AsCoded ==
    (ps_pc = "returned" /\ ~NoItems(search_results)) =>
        /\ Len(ps_log) = Len(search_results.items)
        /\ ps_jobs = ParseGoogleSearchJson(search_results)
        /\ \A k \in 1..Len(search_results.items) :
              ps_log[k] = "error" <=>
                 \/ search_results.items[k].t # "dict"
                 \/ Get(search_results.items[k], <<"title">>, PyStr(<<>>)).t # "str"

----------------------------------------------------------------------------
(* SpecAnalyze: one call of analyze_job_listing on every job and reply.    *)

AnInit ==
    /\ an_pc = "call"
    /\ an_job \in JobInputs
    /\ an_reply \in ReplyInputs
    /\ an_out = NoResult
    /\ CnIdle /\ PsIdle /\ MainIdle /\ FtIdle

AnAnalyze ==
    /\ an_pc = "call"
    /\ an_out' = AnalyzeJobListing(an_job, an_reply)
    /\ an_pc' = "done"
    /\ UNCHANGED <<an_job, an_reply, cn_vars, ps_vars, main_vars, ft_vars>>

AnNext == AnAnalyze

SpecAnalyze == AnInit /\ [][AnNext]_vars

----------------------------------------------------------------------------
(* Claims about analyze_job_listing, under SpecAnalyze.                    *)

\* the outcomes that are failure paths: the call raised, the message has no
\* content, or the text decodes as JSON but is no object with both keys
C2_FailurePath(reply) ==
    \/ reply.kind \in {"error", "empty"}
    \/ /\ reply.kind = "text"
       /\ ~JsonLoads(reply.text).raised
       /\ \/ JsonLoads(reply.text).val.t # "dict"
          \/ ~HasKey(JsonLoads(reply.text).val, MatchScore)
          \/ ~HasKey(JsonLoads(reply.text).val, AnalysisKey)

\* C2: analyze_job_listing never raises, whatever the job record and the
\* outcome of the service call; on a failure path the score is 0 and the
\* analysis holds "failed" and the description of the error.
C2_NeverRaises ==
    an_pc = "done" =>
        /\ ~an_out.raised
        /\ C2_FailurePath(an_reply) =>
              /\ an_out.score = PyInt(0)
              /\ an_out.analysis.t = "str"
              /\ Contains(an_out.analysis.s, <<"failed">>)
              /\ an_reply.kind = "error" =>
                    Contains(an_out.analysis.s, <<"failed", ":", " ">> \o an_reply.text)

\* What holds of the code: once the prompt is built (the description is a
\* text), no outcome of the call makes it raise, and every failure path gives
\* score 0 and "Analysis failed: <error>".
C2_AsCoded ==
    (an_pc = "done" /\ an_job.description.t = "str") =>
        /\ ~an_out.raised
        /\ C2_FailurePath(an_reply) =>
              /\ an_out.score = PyInt(0)
              /\ an_out.analysis.t = "str"
              /\ Contains(an_out.analysis.s, <<"failed">>)
              /\ an_reply.kind = "error" =>
                    Contains(an_out.analysis.s, <<"failed", ":", " ">> \o an_reply.text)

\* blanks, then double quotes, then blanks again removed at both ends
C3_Trim(x) == Strip(Strip(Strip(x, Whitespace), Quote), Whitespace)

\* an optional "-" and one or more digits
C3_IsInt(x) ==
    LET d == IF At(x, 1) = "-" THEN Tail(x) ELSE x
    IN d # <<>> /\ \A k \in 1..Len(d) : d[k] \in Digits

\* C3 as claimed: the text after the first colon that follows "match_score", up
\* to the next comma (to the end of the text when no comma follows)
C3_ClaimedCandidate(text) ==
    LET k == Find(text, MatchScore, 1)
        c == IF k = 0 THEN 0 ELSE Find(text, Colon, k + 1)
        m == IF c = 0 THEN 0 ELSE Find(text, Comma, c + 1)
        e == IF m = 0 THEN Len(text) ELSE m - 1
    IN [found |-> c # 0, text |-> IF c = 0 THEN <<>> ELSE C3_Trim(Slice(text, c + 1, e))]

\* C3 as amended: within the text between the first "match_score" and the next
\* one (or the end), the text after the first colon up to the next colon or
\* comma (or the end)
C3_CodedCandidate(text) ==
    LET k == Find(text, MatchScore, 1)
        n == IF k = 0 THEN 0 ELSE Find(text, MatchScore, k + 1)
        part == IF k = 0 THEN <<>>
                ELSE IF n = 0 THEN From(text, k + 1) ELSE Slice(text, k + 1, n - 1)
        c == Find(part, Colon, 1)
        stops == {j \in (c + 1)..Len(part) : part[j] \in {":", ","}}
        e == IF stops = {} THEN Len(part) ELSE (CHOOSE j \in stops : \A h \in stops : j <= h) - 1
    IN [found |-> k # 0 /\ c # 0, text |-> IF c = 0 THEN <<>> ELSE C3_Trim(Slice(part, c + 1, e))]

\* the tiers, with the scrape given by the candidate text cand
C3_Tiers(cand) ==
    LET text == an_reply.text
        decoded == JsonLoads(text)
    IN (an_pc = "done" /\ an_reply.kind = "text" /\ ~an_out.raised) =>
          /\ (/\ ~decoded.raised
              /\ decoded.val.t = "dict"
              /\ HasKey(decoded.val, MatchScore)
              /\ HasKey(decoded.val, AnalysisKey)) =>
                 /\ an_out.score = Get(decoded.val, MatchScore, PyNone)
                 /\ an_out.analysis = Get(decoded.val, AnalysisKey, PyNone)
          /\ (decoded.raised /\ cand.found /\ C3_IsInt(cand.text)) =>
                 /\ an_out.score = PyIntParse(cand.text).val
                 /\ an_out.analysis = PyStr(text)
          /\ (decoded.raised /\ ~(cand.found /\ C3_IsInt(cand.text))) =>
                 /\ an_out.score = PyInt(5)
                 /\ an_out.analysis = PyStr(text)

----------------------------------------------------------------------------
(* Spec: a run of main (lines 385-424) once the ranker is built and the     *)
(* snapshot file is decoded, or a direct call of rank_jobs on the records   *)
(* parsed from a snapshot.                                                  *)

Init ==
    /\ pc = "start"
    /\ caller \in {"main", "direct"}
    /\ snapshot \in RunSnapshotInputs
    /\ jobs = <<>>
    /\ i = 0
    /\ score_analysis = NoResult
    /\ calls = 0
    /\ sleeps = 0
    /\ trace = <<>>
    /\ ranked_jobs = <<>>
    /\ results_file \in {NoFile, File(TRUE, <<StaleEntry>>)}
    /\ CnIdle /\ PsIdle /\ AnIdle /\ FtIdle

\* lines 404-415: the records are parsed; main stops when there are none,
\* rank_jobs starts its loop (line 156) otherwise
Load ==
    /\ pc = "start"
    /\ jobs' = JobObjects(ParseGoogleSearchJson(snapshot))
    /\ pc' = IF caller = "main" /\ ParseGoogleSearchJson(snapshot) = <<>> THEN "no_jobs"
             ELSE "loop"
    /\ i' = 0
    /\ UNCHANGED <<caller, snapshot, score_analysis, calls, sleeps, trace, ranked_jobs,
                   results_file, cn_vars, ps_vars, an_vars, ft_vars>>

\* line 161: the next record is analysed; the service is called unless the
\* prompt cannot be built, and then the exception leaves rank_jobs and main
Analyze ==
    /\ pc = "loop"
    /\ i < Len(jobs)
    /\ i' = i + 1
    /\ \E reply \in RunReplyInputs :
       \E out \in {AnalyzeJobListing(jobs[i + 1], reply)} :
             /\ score_analysis' = out
             /\ pc' = IF out.raised THEN "crashed" ELSE "analyzed"
             /\ calls' = IF out.raised THEN calls ELSE calls + 1
             /\ trace' = IF out.raised THEN trace ELSE Append(trace, <<"call", i + 1>>)
    /\ UNCHANGED <<caller, snapshot, jobs, sleeps, ranked_jobs, results_file,
                   cn_vars, ps_vars, an_vars, ft_vars>>

\* lines 164-168: the score and the analysis are stored in the record
Write ==
    /\ pc = "analyzed"
    /\ jobs' = [jobs EXCEPT ![i].match_score = score_analysis.score,
                            ![i].analysis = score_analysis.analysis]
    /\ trace' = Append(trace, <<"write", i>>)
    /\ pc' = IF NeedsDelay(i, Len(jobs)) THEN "delay" ELSE "loop"
    /\ UNCHANGED <<caller, snapshot, i, score_analysis, calls, sleeps, ranked_jobs,
                   results_file, cn_vars, ps_vars, an_vars, ft_vars>>

\* line 169: time.sleep(delay_seconds)
Delay ==
    /\ pc = "delay"
    /\ sleeps' = sleeps + 1
    /\ trace' = Append(trace, <<"sleep", i>>)
    /\ pc' = "loop"
    /\ UNCHANGED <<caller, snapshot, jobs, i, score_analysis, calls, ranked_jobs,
                   results_file, cn_vars, ps_vars, an_vars, ft_vars>>

\* lines 173-174: the loop is over; sorted returns the ranking or raises
Sort ==
    /\ pc = "loop"
    /\ i = Len(jobs)
    /\ trace' = Append(trace, <<"sort", i>>)
    /\ IF SortRaises(jobs)
       THEN pc' = "crashed" /\ UNCHANGED ranked_jobs
       ELSE pc' = "ranked" /\ ranked_jobs' = SortedByScoreDesc(jobs)
    /\ UNCHANGED <<caller, snapshot, jobs, i, score_analysis, calls, sleeps,
                   results_file, cn_vars, ps_vars, an_vars, ft_vars>>

\* lines 418-424: main prints the ranking and saves it
Save ==
    /\ pc = "ranked"
    /\ caller = "main"
    /\ results_file' = File(TRUE, ResultEntries(ranked_jobs))
    /\ pc' = "complete"
    /\ UNCHANGED <<caller, snapshot, jobs, i, score_analysis, calls, sleeps, trace,
                   ranked_jobs, cn_vars, ps_vars, an_vars, ft_vars>>

Next == Load \/ Analyze \/ Write \/ Delay \/ Sort \/ Save

Spec == Init /\ [][Next]_vars

----------------------------------------------------------------------------
(* Claims about rank_jobs and main, under Spec.                            *)

\* rank_jobs has returned its list
RankJobsReturned == pc \in {"ranked", "complete"}

\* C1: after rank_jobs returns, whatever the service answered, every record of
\* the returned list has an integer match_score in 0..10 and a non-empty text
\* as analysis.
C1_ScoreInRange ==
    RankJobsReturned =>
        \A k \in 1..Len(ranked_jobs) :
            /\ ranked_jobs[k].match_score.t = "int"
            /\ ranked_jobs[k].match_score.n \in 0..10
            /\ ranked_jobs[k].analysis.t = "str"
            /\ ranked_jobs[k].analysis.s # <<>>

\* C10: after rank_jobs, a match_score of 0 always comes with an analysis that
\* carries the failure marker "Analysis failed: ...".
C10_ZeroMeansFailure ==
    RankJobsReturned =>
        \A k \in 1..Len(ranked_jobs) :
            ranked_jobs[k].match_score = PyInt(0) =>
                /\ ranked_jobs[k].analysis.t = "str"
                /\ StartsWith(ranked_jobs[k].analysis.s, <<"Analysis", " ", "failed", ":">>)

\* C4: the list rank_jobs returns is a permutation of its input (the same
\* objects, none lost, none twice), its scores never increase, and records of
\* equal score keep their input order.
C4_StableDescending ==
    RankJobsReturned =>
        /\ Len(ranked_jobs) = Len(jobs)
        /\ {ranked_jobs[k].ident : k \in 1..Len(ranked_jobs)} = 1..Len(jobs)
        /\ \A k \in 1..Len(ranked_jobs) : ranked_jobs[k] = jobs[ranked_jobs[k].ident]
        /\ \A k \in 1..(Len(ranked_jobs) - 1) :
              ~ScoreLess(ranked_jobs[k].match_score, ranked_jobs[k + 1].match_score)
        /\ \A k, l \in 1..Len(ranked_jobs) :
              (k < l /\ ranked_jobs[k].match_score = ranked_jobs[l].match_score)
                  => ranked_jobs[k].ident < ranked_jobs[l].ident

\* three records, the first scored below the two others, which tie
C4_Witness ==
    /\ pc = "ranked"
    /\ Len(ranked_jobs) = 3
    /\ <<ranked_jobs[1].ident, ranked_jobs[2].ident, ranked_jobs[3].ident>> = <<2, 3, 1>>
    /\ ranked_jobs[1].match_score = ranked_jobs[2].match_score
    /\ ranked_jobs[3].match_score # ranked_jobs[2].match_score

\* what a run over n records does, in order: per record a call and the write
\* of its result, a delay between two records, and the sort at the end
RECURSIVE C5_Schedule(_, _)
C5_Schedule(k, n) ==
    IF k > n THEN <<<<"sort", n>>>>
    ELSE <<<<"call", k>>, <<"write", k>>>>
         \o (IF k < n THEN <<<<"sleep", k>>>> ELSE <<>>)
         \o C5_Schedule(k + 1, n)

C5_Count(kind) == Cardinality({k \in 1..Len(trace) : trace[k][1] = kind})

\* C5: the records are analysed in input order, one service call each; the
\* result of record i is written into it before the call for record i+1; one
\* delay lies between two consecutive calls and none follows the last; the
\* sort starts only after the last write.  (The steps taken so far are always
\* a prefix of that schedule, and all of it once rank_jobs has sorted.)
C5_SequentialPacing ==
    pc \in {"loop", "analyzed", "delay", "ranked", "complete", "crashed"} =>
        LET n == Len(jobs)
            plan == C5_Schedule(1, n)
        IN /\ Len(trace) <= Len(plan)
           /\ \A k \in 1..Len(trace) : trace[k] = plan[k]
           /\ calls = C5_Count("call")
           /\ sleeps = C5_Count("sleep")
           /\ \A k \in 1..n :
                 (\A e \in 1..Len(trace) : trace[e] # <<"write", k>>) =>
                     (jobs[k].match_score = PyInt(0) /\ jobs[k].analysis = PyStr(<<>>))
           /\ RankJobsReturned =>
                 /\ trace = plan
                 /\ calls = n
                 /\ sleeps = IF n = 0 THEN 0 ELSE n - 1

\* rank_jobs returned after three calls and two delays
C5_Witness ==
    /\ pc = "ranked"
    /\ Len(jobs) = 3
    /\ calls = 3
    /\ sleeps = 2
    /\ trace[Len(trace)] = <<"sort", 3>>

\* C6: once the snapshot is loaded, a run of main is never aborted by what the
\* analysis service returns, and it ends with a results file that holds one
\* entry for each parsed record.  (Stated for the runs whose records all have
\* a text description, so that every record's prompt can be built.)
C6_RunCompletes ==
    (caller = "main" /\ \A k \in 1..Len(jobs) : jobs[k].description.t = "str") =>
        /\ pc # "crashed"
        /\ pc = "complete" =>
              (results_file.exists /\ Len(results_file.entries) = Len(jobs))

\* C11: save_results on the list rank_jobs returned writes one entry per
\* record in list order; entry k has rank k and the match_score, company,
\* title, url and analysis of record k; match_score never increases with the
\* rank; nothing of what the file held before is left.
C11_SavedInRankOrder ==
    pc = "complete" =>
        /\ results_file.exists
        /\ Len(results_file.entries) = Len(ranked_jobs)
        /\ \A k \in 1..Len(ranked_jobs) :
              /\ DOMAIN results_file.entries[k]
                     = {"rank", "match_score", "company", "title", "url", "analysis"}
              /\ results_file.entries[k].rank = k
              /\ results_file.entries[k].match_score = ranked_jobs[k].match_score
              /\ results_file.entries[k].company = ranked_jobs[k].company
              /\ results_file.entries[k].title = ranked_jobs[k].title
              /\ results_file.entries[k].url = ranked_jobs[k].url
              /\ results_file.entries[k].analysis = ranked_jobs[k].analysis
              /\ results_file.entries[k] # StaleEntry
        /\ \A k, l \in 1..Len(results_file.entries) :
              results_file.entries[k].rank < results_file.entries[l].rank =>
                  ~ScoreLess(results_file.entries[k].match_score,
                             results_file.entries[l].match_score)

\* three records saved, reordered by the sort, with two different scores
C11_Witness ==
    /\ pc = "complete"
    /\ Len(results_file.entries) = 3
    /\ ranked_jobs[1].ident # 1
    /\ results_file.entries[1].match_score # results_file.entries[3].match_score
    /\ results_file.entries[3].rank = 3

----------------------------------------------------------------------------
(* SpecFetch: one run of query_google_api.py, then the ranker's loader on  *)
(* the file it wrote.                                                       *)

FtInit ==
    /\ ft_pc = "loop"
    /\ max_results \in 1..MaxPages
    /\ start = 1
    /\ raw_responses = <<>>
    /\ snapshot_file = NoSnapshotFile
    /\ loaded_jobs = <<>>
    /\ CnIdle /\ PsIdle /\ AnIdle /\ MainIdle

\* lines 19-36: one turn of the loop
FtGet ==
    /\ ft_pc = "loop"
    /\ MorePages(start, raw_responses, max_results)
    /\ \E r \in FetchResponses :
          IF r.status # 200
          THEN /\ ft_pc' = "raised"
               /\ UNCHANGED <<start, raw_responses>>
          ELSE /\ raw_responses' = Append(raw_responses, r.page)
               /\ start' = start + PerPage
               /\ ft_pc' = IF GetItemsFalsy(r.page) THEN "return" ELSE "loop"
    /\ UNCHANGED <<max_results, snapshot_file, loaded_jobs, cn_vars, ps_vars, an_vars, main_vars>>

\* line 19: the loop condition fails
FtReturn ==
    /\ ft_pc = "loop"
    /\ ~MorePages(start, raw_responses, max_results)
    /\ ft_pc' = "return"
    /\ UNCHANGED <<max_results, start, raw_responses, snapshot_file, loaded_jobs,
                   cn_vars, ps_vars, an_vars, main_vars>>

\* lines 40-42: the list run_search returned is dumped to job_search_results.json
FtDump ==
    /\ ft_pc = "return"
    /\ snapshot_file' = SnapshotFile(TRUE, ListContent(raw_responses))
    /\ ft_pc' = "saved"
    /\ UNCHANGED <<max_results, start, raw_responses, loaded_jobs,
                   cn_vars, ps_vars, an_vars, main_vars>>

\* rank_jobs_w_claude.py, lines 403-404: main loads that file
FtLoad ==
    /\ ft_pc = "saved"
    /\ loaded_jobs' = LoadJobsFromGoogleSearchFile(snapshot_file.content)
    /\ ft_pc' = "loaded"
    /\ UNCHANGED <<max_results, start, raw_responses, snapshot_file,
                   cn_vars, ps_vars, an_vars, main_vars>>

FtNext == FtGet \/ FtReturn \/ FtDump \/ FtLoad

SpecFetch == FtInit /\ [][FtNext]_vars

\* the search-result items the fetcher received, in fetch order
RECURSIVE C12_ReceivedItems(_, _)
C12_ReceivedItems(pages, k) ==
    IF k > Len(pages) THEN <<>>
    ELSE (IF pages[k].has_items THEN pages[k].items ELSE <<>>)
         \o C12_ReceivedItems(pages, k + 1)

\* C12: the file the fetcher writes is a snapshot the ranker can replay:
\* loading it yields one job record for every item the fetcher received, in
\* fetch order, so a fetch that got at least one item never loads as an empty
\* job list.
C12_Replayable ==
    ft_pc = "loaded" =>
        LET items == C12_ReceivedItems(raw_responses, 1)
        IN /\ Len(loaded_jobs) = Len(items)
           /\ \A k \in 1..Len(items) : loaded_jobs[k] = ParseItem(items[k]).job
           /\ items # <<>> => loaded_jobs # <<>>

\* What the code does with the fetcher's file: the saved value is a list of
\* responses, and the loader finds no job in it, whatever was fetched.
C12_AsCoded ==
    ft_pc = "loaded" =>
        /\ snapshot_file.content.is_list
        /\ snapshot_file.content.pages = raw_responses
        /\ loaded_jobs = <<>>

====
